---- MODULE Spec2Model ----
(***************************************************************************)
(* A model of the metis population-genetics simulator: the simulation      *)
(* driver (cycle, do_n_cycles, do_unspecified_cycles, do_async_cycles),    *)
(* its operators, the genome layout, the genome builder, the allele count  *)
(* statistic and the Autosome layer's transmission.                        *)
(***************************************************************************)
EXTENDS Integers, Sequences, FiniteSets, TLC

VARIABLES
    args,        \* the arguments the driver was called with
    sync,        \* the run of do_unspecified_cycles: loop position, state, history
    async,       \* the run of do_async_cycles: pending resume, last state, history
    species,     \* the genome layout (metadata of a Genome) under study
    population,  \* the individuals' genome buffers
    counts,      \* the last result of GenomeCountStatistics.compute
    offspring    \* the last call of a chromosome's reproduce: arguments and result

vars == <<args, sync, async, species, population, counts, offspring>>

(***************************************************************************)
(* Bounds of the model.                                                    *)
(***************************************************************************)
MaxN == 2          \* n of do_n_cycles ranges over 0..MaxN
MaxStart == 1      \* previous_cycle ranges over 0..MaxStart
MaxTarget == 1     \* the target of a caller-made CycleStopOperator
MaxInds == 2       \* number of individuals at the start of a run
MaxK == 1          \* offspring a reproduction operator adds per cycle
MaxOps == 2        \* length of the caller's operator list
MaxCycle == MaxN + MaxStart + 1   \* runs are cut off at this cycle

(***************************************************************************)
(* Values.  An absent property (undefined) is the empty sequence, a        *)
(* present one a one-element sequence.                                     *)
(***************************************************************************)
Undefined == <<>>

Some(v) == <<v>>

\* {stop: false}: the global_parameters every driver state starts with
InitialParameters == [stop |-> Some(FALSE), SexRatio |-> Undefined, Running |-> Undefined]

\* {}: the default of do_async_cycles' global_parameters argument
EmptyParameters == [stop |-> Undefined, SexRatio |-> Undefined, Running |-> Undefined]

\* an individual without genome: identity and the optional is_female flag
Individual(id, is_female) == [id |-> id, is_female |-> is_female]

generate_n_basic_individuals(m) == [i \in 1..m |-> Individual(i, i % 2 = 0)]

Operator(type, arg) == [type |-> type, arg |-> arg]

CycleStopOperator(cycle) == Operator("CycleStopOperator", cycle)

(***************************************************************************)
(* Operators: change(state).  Each returns the state after the call and    *)
(* whether state.operators now refers to another array object.             *)
(***************************************************************************)
InPlace(state) == [state |-> state, replaced |-> FALSE]

\* mutant: stops at or after the target cycle (>= for ===)
CycleStopOperator_change_AtOrAfter(operator, state) ==
    IF state.cycle >= operator.arg
        THEN InPlace([state EXCEPT !.global_parameters.stop = Some(TRUE)])
        ELSE InPlace(state)

\* ops_CycleStopOperator.change
CycleStopOperator_change(operator, state) ==
    IF state.cycle = operator.arg
        THEN InPlace([state EXCEPT !.global_parameters.stop = Some(TRUE)])
        ELSE InPlace(state)

\* SexStatistics.compute: is_female counts as female, anything else as male
RECURSIVE CountFemales(_)
CountFemales(individuals) ==
    IF individuals = <<>> THEN 0
    ELSE (IF Head(individuals).is_female THEN 1 ELSE 0) + CountFemales(Tail(individuals))

SexStatistics_compute(global_parameters, cycle, individuals) ==
    [females |-> CountFemales(individuals),
     males |-> Len(individuals) - CountFemales(individuals)]

\* a statistic whose compute reads its own previous value in global_parameters
RunningStatistics_compute(global_parameters, cycle, individuals) ==
    IF global_parameters.Running = Undefined THEN 1
    ELSE Head(global_parameters.Running) + 1

\* ops_StatisticsOperator.change: global_parameters[name] = compute(...)
StatisticsOperator_change(operator, state) ==
    IF operator.type = "SexStatistics"
        THEN InPlace([state EXCEPT !.global_parameters.SexRatio =
                 Some(SexStatistics_compute(state.global_parameters, state.cycle, state.individuals))])
        ELSE InPlace([state EXCEPT !.global_parameters.Running =
                 Some(RunningStatistics_compute(state.global_parameters, state.cycle, state.individuals))])

\* a reproduction operator adding operator.arg offspring to state.individuals
Reproduction_change(operator, state) ==
    LET m == Len(state.individuals)
    IN InPlace([state EXCEPT !.individuals =
           @ \o [j \in 1..operator.arg |-> Individual(m + j, FALSE)]])

Pushed == Operator("NoGenomeSexualReproduction", 1)

RECURSIVE IndexOf(_, _, _)
IndexOf(array, x, from) ==
    IF from > Len(array) THEN 0
    ELSE IF array[from] = x THEN from ELSE IndexOf(array, x, from + 1)

Splice(array, index) ==
    IF index = 0 THEN array
    ELSE SubSeq(array, 1, index - 1) \o SubSeq(array, index + 1, Len(array))

\* operators that change state.operators: push in place, remove themselves
\* in place, or assign a new list
ListOperator_change(operator, state) ==
    CASE operator.type = "PushOperator" ->
            InPlace([state EXCEPT !.operators = Append(@, Pushed)])
      [] operator.type = "RemoveOperator" ->
            InPlace([state EXCEPT !.operators = Splice(@, IndexOf(@, operator, 1))])
      [] OTHER ->
            [state |-> [state EXCEPT !.operators = Append(@, Pushed)], replaced |-> TRUE]

change(operator, state) ==
    CASE operator.type = "CycleStopOperator" -> CycleStopOperator_change(operator, state)
      [] operator.type \in {"SexStatistics", "RunningStatistics"} ->
            StatisticsOperator_change(operator, state)
      [] operator.type = "NoGenomeSexualReproduction" -> Reproduction_change(operator, state)
      [] OTHER -> ListOperator_change(operator, state)

(***************************************************************************)
(* cycle(state): for (let operator of state.operators) operator.change;    *)
(* state.cycle += 1.  The for..of iterator walks the array object that     *)
(* state.operators referred to when the loop began, by index, and reads    *)
(* its length anew at each turn.                                           *)
(***************************************************************************)
RECURSIVE IterateOperators(_, _, _, _, _)
IterateOperators(state, array, aliased, index, applied) ==
    IF index > Len(array) THEN [state |-> state, applied |-> applied]
    ELSE LET operator == array[index]
             r == change(operator, state)
             still == aliased /\ ~r.replaced
         IN IterateOperators(r.state,
                             IF still THEN r.state.operators ELSE array,
                             still, index + 1, Append(applied, operator))

\* mutant: state.cycle += 1 before the operators are applied
CycleRun_IncrementFirst(state) ==
    LET first == [state EXCEPT !.cycle = @ + 1]
        r == IterateOperators(first, first.operators, TRUE, 1, <<>>)
    IN [state |-> r.state, applied |-> r.applied]

CycleRun(state) ==
    LET r == IterateOperators(state, state.operators, TRUE, 1, <<>>)
    IN [state |-> [r.state EXCEPT !.cycle = @ + 1], applied |-> r.applied]

sim_cycle(state) == CycleRun(state).state

(***************************************************************************)
(* The driving modes.                                                      *)
(***************************************************************************)
NewState(individuals, operators, previous_cycle) ==
    [global_parameters |-> InitialParameters, individuals |-> individuals,
     operators |-> operators, cycle |-> previous_cycle]

\* mutant: the stop operator aims one cycle late
add_operators_Late(n, operators, previous_cycle) ==
    Append(operators, CycleStopOperator(n + previous_cycle + 1))

\* do_n_cycles: add_operators = operators.slice() plus CycleStopOperator(n + previous_cycle)
add_operators(n, operators, previous_cycle) ==
    Append(operators, CycleStopOperator(n + previous_cycle))

\* the operator list the driving loop is started with
StartOperators(a) ==
    IF a.entry = "do_n_cycles" THEN add_operators(a.n, a.operators, a.previous_cycle)
    ELSE a.operators

\* do_unspecified_cycles: while (state.global_parameters.stop === false)
sim_do_unspecified_cycles_continues(state) == state.global_parameters.stop = Some(FALSE)

\* mutant: the callback is always given a resume function
sim_do_async_cycles_AlwaysResume(individuals, operators, previous_cycle, global_parameters) ==
    LET run == CycleRun(NewState(individuals, operators, previous_cycle))
    IN [state |-> run.state,
        return_callback |-> Some([individuals |-> run.state.individuals,
                                  operators |-> run.state.operators,
                                  previous_cycle |-> previous_cycle + 1,
                                  global_parameters |-> run.state.global_parameters]),
        applied |-> run.applied]

\* do_async_cycles: one cycle on a fresh state, then the callback's arguments;
\* return_callback is do_async_cycles bound to its next arguments
sim_do_async_cycles(individuals, operators, previous_cycle, global_parameters) ==
    LET run == CycleRun(NewState(individuals, operators, previous_cycle))
        state == run.state
        return_callback ==
            IF state.global_parameters.stop \in {Undefined, Some(FALSE)}
                THEN Some([individuals |-> state.individuals,
                           operators |-> state.operators,
                           previous_cycle |-> previous_cycle + 1,
                           global_parameters |-> state.global_parameters])
                ELSE Undefined
    IN [state |-> state, return_callback |-> return_callback, applied |-> run.applied]

(***************************************************************************)
(* The driver as a state machine.  A run of do_unspecified_cycles and a    *)
(* run of do_async_cycles are made on the same arguments.  The two runs    *)
(* share nothing, so the model makes them one after the other.  The caller *)
(* of the async run invokes the resume function it was last given.         *)
(***************************************************************************)
StopOperators == {CycleStopOperator(t) : t \in 0..MaxTarget}

StatisticsOperators == {Operator("SexStatistics", 0), Operator("RunningStatistics", 0)}

ReproductionOperators == {Operator("NoGenomeSexualReproduction", k) : k \in 1..MaxK}

ListOperators ==
    {Operator("PushOperator", 0), Operator("RemoveOperator", 0), Operator("ReplaceOperator", 0)}

DriverOperators == StopOperators \cup StatisticsOperators \cup ReproductionOperators

OperatorLists(universe) == UNION {[1..len -> universe] : len \in 0..MaxOps}

Arguments(universe) ==
    {[entry |-> e, n |-> n, individuals |-> generate_n_basic_individuals(m),
      operators |-> ops, previous_cycle |-> p] :
        e \in {"do_n_cycles"}, n \in 0..MaxN, m \in 0..MaxInds,
        ops \in OperatorLists(universe), p \in 0..MaxStart}
    \cup
    {[entry |-> e, n |-> 0, individuals |-> generate_n_basic_individuals(m),
      operators |-> ops, previous_cycle |-> p] :
        e \in {"do_unspecified_cycles"}, m \in 0..MaxInds,
        ops \in OperatorLists(universe), p \in 0..MaxStart}

\* one entry of a run's history: the state a cycle step began with, the
\* operators it applied, the state it left
Step(before, applied, after) == [before |-> before, applied |-> applied, after |-> after]

DriverInit(arguments) ==
    /\ args \in arguments
    /\ sync = [pc |-> "loop",
               state |-> NewState(args.individuals, StartOperators(args), args.previous_cycle),
               hist |-> <<>>]
    /\ async = [pc |-> "start",
                resume |-> Some([individuals |-> args.individuals,
                                 operators |-> StartOperators(args),
                                 previous_cycle |-> args.previous_cycle,
                                 global_parameters |-> EmptyParameters]),
                state |-> Undefined,
                hist |-> <<>>]
    /\ species = <<>>
    /\ population = <<>>
    /\ counts = <<>>
    /\ offspring = <<>>

\* one turn of the while loop of do_unspecified_cycles
SyncCycle ==
    /\ sync.pc = "loop"
    /\ sim_do_unspecified_cycles_continues(sync.state)
    /\ sync.state.cycle < MaxCycle
    /\ LET run == CycleRun(sync.state)
       IN sync' = [sync EXCEPT !.state = sim_cycle(sync.state),
                               !.hist = Append(@, Step(sync.state, run.applied, sim_cycle(sync.state)))]
    /\ UNCHANGED <<args, async, species, population, counts, offspring>>

\* the loop condition fails: return state
SyncReturn ==
    /\ sync.pc = "loop"
    /\ ~sim_do_unspecified_cycles_continues(sync.state)
    /\ sync' = [sync EXCEPT !.pc = "returned"]
    /\ UNCHANGED <<args, async, species, population, counts, offspring>>

AsyncInvoke(bound) ==
    LET r == sim_do_async_cycles(bound.individuals, bound.operators,
                                 bound.previous_cycle, bound.global_parameters)
    IN async' = [pc |-> "called",
                 resume |-> r.return_callback,
                 state |-> Some(r.state),
                 hist |-> Append(async.hist,
                                 Step(NewState(bound.individuals, bound.operators, bound.previous_cycle),
                                      r.applied, r.state))]

SyncOver == sync.pc = "returned" \/ sync.state.cycle >= MaxCycle

\* the first invocation of do_async_cycles
AsyncStart ==
    /\ async.pc = "start"
    /\ SyncOver
    /\ AsyncInvoke(Head(async.resume))
    /\ UNCHANGED <<args, sync, species, population, counts, offspring>>

\* the caller invokes the resume function its callback was given
AsyncResume ==
    /\ async.pc = "called"
    /\ async.resume # Undefined
    /\ Head(async.resume).previous_cycle < MaxCycle
    /\ AsyncInvoke(Head(async.resume))
    /\ UNCHANGED <<args, sync, species, population, counts, offspring>>

Init == DriverInit(Arguments(DriverOperators))

Next == SyncCycle \/ SyncReturn \/ AsyncStart \/ AsyncResume

Spec == Init /\ [][Next]_vars

\* calls of do_n_cycles with at most one operator of the caller's
InitNCycles ==
    DriverInit({a \in Arguments(DriverOperators) :
                    a.entry = "do_n_cycles" /\ Len(a.operators) <= 1})

\* the synchronous loop runs on its own until its condition fails
FairSpec ==
    InitNCycles /\ [][Next]_vars /\ WF_vars(SyncCycle) /\ WF_vars(SyncReturn)

\* the same driver with operators that change state.operators
InitOps == DriverInit(Arguments(DriverOperators \cup ListOperators))

SpecOps == InitOps /\ [][Next]_vars

(***************************************************************************)
(* Properties of the driver.                                               *)
(***************************************************************************)
\* every cycle step either run has executed so far
StepsOf(run) == {run.hist[k] : k \in 1..Len(run.hist)}

ExecutedSteps == StepsOf(sync) \cup StepsOf(async)

RECURSIVE Offspring(_)
Offspring(operators) ==
    IF operators = <<>> THEN 0
    ELSE (IF Head(operators).type = "NoGenomeSexualReproduction" THEN Head(operators).arg ELSE 0)
         + Offspring(Tail(operators))

C1_Case ==
    /\ args.entry = "do_n_cycles"
    /\ args.operators = <<>>
    /\ args.previous_cycle = 0

\* C1: do_n_cycles(n, individuals, []) started at previous_cycle 0 without a
\* callback terminates, and the state it returns has cycle = n + 1 and as
\* many individuals as at the start.
C1_DoNCyclesTerminates ==
    C1_Case ~> (/\ sync.pc = "returned"
                /\ sync.state.cycle = args.n + 1
                /\ Len(sync.state.individuals) = Len(args.individuals))

C1_Witness ==
    /\ C1_Case
    /\ args.n = MaxN
    /\ Len(args.individuals) = MaxInds
    /\ sync.pc = "returned"
    /\ sync.state.cycle = MaxN + 1

StopTargets == {StartOperators(args)[i].arg : i \in
                   {j \in 1..Len(StartOperators(args)) :
                        StartOperators(args)[j].type = "CycleStopOperator"}}

StopCount == Cardinality({j \in 1..Len(StartOperators(args)) :
                              StartOperators(args)[j].type = "CycleStopOperator"})

Fired(run, target) == {k \in 1..Len(run.hist) : run.hist[k].before.cycle = target}

C3_Run(run, target, ended) ==
    /\ \A k \in 1..Len(run.hist) :
          /\ run.hist[k].before.global_parameters.stop = Some(FALSE)
          /\ (run.hist[k].after.global_parameters.stop = Some(TRUE)) <=>
                 (run.hist[k].before.cycle = target)
    /\ Cardinality(Fired(run, target)) <= 1
    /\ ended => Cardinality(Fired(run, target)) = 1

Observed(state) ==
    [cycle |-> state.cycle, individuals |-> state.individuals,
     global_parameters |-> state.global_parameters]

\* C4: the caller of do_async_cycles that always resumes observes after each
\* cycle step the state do_unspecified_cycles has after as many steps, and
\* both runs end after the same number of steps.
C4_AsyncEquivalent ==
    /\ \A k \in 1..Len(sync.hist) :
          k <= Len(async.hist) =>
              Observed(async.hist[k].after) = Observed(sync.hist[k].after)
    /\ (sync.pc = "returned" /\ async.pc = "called" /\ async.resume = Undefined)
          => Len(async.hist) = Len(sync.hist)

\* C5: every invocation of do_async_cycles runs exactly one cycle step and
\* calls back once; the callback gets a resume function exactly when stop is
\* not set after the step, so no step runs once stop is set.
C5_OneStepPerInvocation ==
    /\ [](async.pc = "called" =>
             /\ Len(async.hist) >= 1
             /\ async.state = Some(async.hist[Len(async.hist)].after)
             /\ (async.resume # Undefined) <=>
                    (Head(async.state).global_parameters.stop # Some(TRUE)))
    /\ [][async' # async =>
             /\ Len(async'.hist) = Len(async.hist) + 1
             /\ async'.hist[Len(async'.hist)].after.cycle
                    = async'.hist[Len(async'.hist)].before.cycle + 1
             /\ async.pc = "called" =>
                    Head(async.state).global_parameters.stop # Some(TRUE)]_vars

C5_Witness ==
    /\ async.pc = "called"
    /\ async.resume = Undefined
    /\ Len(async.hist) = MaxN + 1
    /\ Head(async.state).global_parameters.stop = Some(TRUE)

\* C6: a change an operator makes to state.operators during a cycle step does
\* not alter which operators the step applies: the step applies the list it
\* began with.
C6_ListChangeDeferred ==
    \A s \in ExecutedSteps : s.applied = s.before.operators

(***************************************************************************)
(* Markers, chromosomes and the genome layout.                             *)
(***************************************************************************)
MaxGenomeSize == 4       \* genome.size of the layouts under study
MaxPopulationBytes == 6  \* individuals times genome.size of a population
RandomSteps == 2         \* Math.random() yields j / RandomSteps, j < RandomSteps

\* a marker is its possible_values; SNP defaults to [0, 1]
SNP == <<0, 1>>

\* a MicroSatellite is given its possible_values
MicroSatellite == <<1, 2>>

MarkerTypes == {SNP, MicroSatellite}

\* Chromosome, and the classes the layers Autosome (ChromosomePair),
\* UnlinkedAutosome, LinkedAutosome and XChromosome make of it
ChromosomeKinds ==
    {"Chromosome", "ChromosomePair", "UnlinkedAutosome", "LinkedAutosome", "XChromosome"}

Chromosome(kind, markers) == [kind |-> kind, markers |-> markers]

\* get size: markers.length, doubled by every layer
Chromosome_size(chromosome) ==
    IF chromosome.kind = "Chromosome" THEN Len(chromosome.markers)
    ELSE 2 * Len(chromosome.markers)

\* get markers: the Autosome layer alone returns base_markers.concat(base_markers)
Chromosome_markers(chromosome) ==
    IF chromosome.kind = "ChromosomePair" THEN chromosome.markers \o chromosome.markers
    ELSE chromosome.markers

\* get is_autosomal: true in the Autosome layer alone
Chromosome_is_autosomal(chromosome) == chromosome.kind = "ChromosomePair"

\* Genome._compute_marker_positions: metadata is the sequence of the
\* chromosomes in key order, a chromosome's name is its place in it
RECURSIVE compute_marker_positions(_, _, _, _)
compute_marker_positions(metadata, k, start, marker_start) ==
    IF k > Len(metadata) THEN marker_start
    ELSE compute_marker_positions(metadata, k + 1,
                                  start + Chromosome_size(metadata[k]),
                                  Append(marker_start, start))

\* mutant: the genome ends after the last chromosome's markers.length
Genome_LastMarkersLength(metadata) ==
    LET marker_start == compute_marker_positions(metadata, 1, 0, <<>>)
        last_marker_name == Len(metadata)
    IN [metadata |-> metadata,
        marker_order |-> [k \in 1..Len(metadata) |-> k],
        marker_start |-> marker_start,
        size |-> marker_start[last_marker_name] + Len(metadata[last_marker_name].markers)]

\* new Genome(metadata), metadata not empty
Genome(metadata) ==
    LET marker_start == compute_marker_positions(metadata, 1, 0, <<>>)
        last_marker_name == Len(metadata)
        last_marker_size == Chromosome_size(metadata[last_marker_name])
    IN [metadata |-> metadata,
        marker_order |-> [k \in 1..Len(metadata) |-> k],
        marker_start |-> marker_start,
        size |-> marker_start[last_marker_name] + last_marker_size]

(***************************************************************************)
(* The genome builder.                                                     *)
(***************************************************************************)
\* the writes of create_simple_genome in call order: the position written
\* and the possible_values handed to func
RECURSIVE Features(_, _, _, _)
Features(genome, k, position, acc) ==
    IF k > Len(genome.marker_order) THEN acc
    ELSE LET marker == genome.metadata[genome.marker_order[k]]
             features == Chromosome_markers(marker)
         IN Features(genome, k + 1, position + Chromosome_size(marker),
                     acc \o [i \in 1..Len(features) |->
                                [position |-> position + i - 1,
                                 possible_values |-> features[i]]])

Uint8(v) == v % 256

\* create_simple_genome: a zeroed Uint8Array of genome.size, then the writes;
\* results[k] is what the k-th call of func returned
create_simple_genome(genome, results) ==
    LET writes == Features(genome, 1, 0, <<>>)
    IN [p \in 1..genome.size |->
          LET hits == {k \in 1..Len(writes) : writes[k].position = p - 1}
          IN IF hits = {} THEN 0
             ELSE Uint8(results[CHOOSE k \in hits : \A j \in hits : j <= k])]

\* random_choice: choices[Math.floor(Math.random() * choices.length)]
utils_random_choice(choices, j) == choices[((j * Len(choices)) \div RandomSteps) + 1]

create_randomized_genome(genome, draws) ==
    LET writes == Features(genome, 1, 0, <<>>)
    IN create_simple_genome(genome,
           [k \in 1..Len(writes) |-> utils_random_choice(writes[k].possible_values, draws[k])])

create_zero_genome(genome) ==
    create_simple_genome(genome, [k \in 1..Len(Features(genome, 1, 0, <<>>)) |-> 0])

(***************************************************************************)
(* GenomeCountStatistics.compute                                           *)
(***************************************************************************)
\* feature_counts after the alleles of reads were counted one by one
Tally(reads) ==
    [allele \in {reads[k] : k \in 1..Len(reads)} |->
        Cardinality({k \in 1..Len(reads) : reads[k] = allele})]

\* the alleles the two inner loops read for feature i: for each my_start of
\* start, for each individual, individual.genome[position + i]
FeatureReads(individuals, start, position, i) ==
    [k \in 1..(Len(start) * Len(individuals)) |->
        individuals[((k - 1) % Len(individuals)) + 1].genome[position + i + 1]]

\* mutant: an autosomal chromosome is scanned with start = [0] only
MarkerCounts_OneCopy(individuals, marker, position) ==
    LET features == Chromosome_markers(marker)
        num_features == IF Chromosome_is_autosomal(marker) THEN Len(features) \div 2
                        ELSE Len(features)
    IN [f \in 1..num_features |-> Tally(FeatureReads(individuals, <<0>>, position, f - 1))]

\* marker_counts of one chromosome
MarkerCounts(individuals, marker, position) ==
    LET features == Chromosome_markers(marker)
        num_features == IF Chromosome_is_autosomal(marker) THEN Len(features) \div 2
                        ELSE Len(features)
        start == IF Chromosome_is_autosomal(marker) THEN <<0, num_features>> ELSE <<0>>
    IN [f \in 1..num_features |-> Tally(FeatureReads(individuals, start, position, f - 1))]

RECURSIVE GenomeCountStatistics_loop(_, _, _, _, _)
GenomeCountStatistics_loop(individuals, genome, k, position, acc) ==
    IF k > Len(genome.marker_order) THEN acc
    ELSE LET marker == genome.metadata[genome.marker_order[k]]
         IN GenomeCountStatistics_loop(individuals, genome, k + 1,
                                       position + Chromosome_size(marker),
                                       Append(acc, MarkerCounts(individuals, marker, position)))

\* counts, as handed to compute_counts; the species is individuals[0].species
GenomeCountStatistics_compute(individuals, genome) ==
    GenomeCountStatistics_loop(individuals, genome, 1, 0, <<>>)

(***************************************************************************)
(* Transmission: reproduce.  A genome buffer is a Uint8Array: a read past  *)
(* its end yields undefined, stored as 0, a write past its end is dropped. *)
(***************************************************************************)
\* gn_Chromosome.reproduce: individual.genome[ofs_position + i] =
\* parent.genome[parent_position + i] for i < this._size
Chromosome_reproduce(chromosome, individual, parent, ofs_position, parent_position) ==
    LET size == Len(chromosome.markers)
    IN [p \in 1..Len(individual) |->
          IF ofs_position <= p - 1 /\ p - 1 < ofs_position + size
              THEN LET from == parent_position + (p - 1 - ofs_position) + 1
                   IN IF from <= Len(parent) THEN parent[from] ELSE 0
              ELSE individual[p]]

\* mutant: the second gamete is read from the parent's second copy
Autosome_reproduce_SecondCopy(chromosome, individual, parents, position, j) ==
    LET swap == 2 * j < RandomSteps
        p1 == IF swap THEN 2 ELSE 1
        p2 == IF swap THEN 1 ELSE 2
        half == Chromosome_size(chromosome) \div 2
        first == Chromosome_reproduce(chromosome, individual, parents[p1], position, position)
    IN Chromosome_reproduce(chromosome, first, parents[p2], position + half, position + half)

\* gn_Autosome.reproduce; Math.random() yielded j / RandomSteps
Autosome_reproduce(chromosome, individual, parents, position, j) ==
    LET swap == 2 * j < RandomSteps
        p1 == IF swap THEN 2 ELSE 1
        p2 == IF swap THEN 1 ELSE 2
        half == Chromosome_size(chromosome) \div 2
        first == Chromosome_reproduce(chromosome, individual, parents[p1], position, position)
    IN Chromosome_reproduce(chromosome, first, parents[p2], position + half, position)

(***************************************************************************)
(* The genome side as a state machine: a genome is built from metadata,    *)
(* individuals are given genomes, the statistic is computed.               *)
(***************************************************************************)
MarkerLists == UNION {[1..len -> MarkerTypes] : len \in 1..MaxGenomeSize}

Chromosomes ==
    {c \in {Chromosome(kind, markers) : kind \in ChromosomeKinds, markers \in MarkerLists} :
        Chromosome_size(c) <= MaxGenomeSize}

\* metadata of one or two chromosomes
Layouts ==
    {<<c>> : c \in Chromosomes}
    \cup {md \in {<<c, d>> : c \in Chromosomes, d \in Chromosomes} :
             Chromosome_size(md[1]) + Chromosome_size(md[2]) <= MaxGenomeSize}

GenomeInit ==
    /\ species \in {[name |-> "species", metadata |-> md, genome |-> Undefined] : md \in Layouts}
    /\ population = <<>>
    /\ counts = Undefined
    /\ offspring = Undefined
    /\ args = <<>>
    /\ sync = <<>>
    /\ async = <<>>

\* new Species(name, new Genome(metadata))
NewGenome ==
    /\ species.genome = Undefined
    /\ species' = [species EXCEPT !.genome = Some(Genome(species.metadata))]
    /\ UNCHANGED <<args, sync, async, population, counts, offspring>>

Room ==
    /\ species.genome # Undefined
    /\ offspring = Undefined
    /\ (Len(population) + 1) * Head(species.genome).size <= MaxPopulationBytes

\* generate_individual_with_genome(species, 0, create_randomized_genome)
GenerateRandomized ==
    /\ Room
    /\ LET genome == Head(species.genome)
           calls == Len(Features(genome, 1, 0, <<>>))
       IN \E draws \in [1..calls -> 0..(RandomSteps - 1)] :
              population' = Append(population,
                  [genome |-> create_randomized_genome(genome, draws), chooser |-> "random"])
    /\ UNCHANGED <<args, sync, async, species, counts, offspring>>

\* generate_individual_with_genome(species, 0, create_zero_genome)
GenerateZero ==
    /\ Room
    /\ population' = Append(population,
           [genome |-> create_zero_genome(Head(species.genome)), chooser |-> "zero"])
    /\ UNCHANGED <<args, sync, async, species, counts, offspring>>

\* GenomeCountStatistics.compute on the current individuals
ComputeStatistics ==
    /\ species.genome # Undefined
    /\ offspring = Undefined
    /\ population # <<>>
    /\ counts' = Some([individuals |-> population,
                       counts |-> GenomeCountStatistics_compute(population, Head(species.genome))])
    /\ UNCHANGED <<args, sync, async, species, population, offspring>>

\* the Autosome layer's reproduce(individual, parents, position) of chromosome
\* k at its start offset: the parents are two individuals of the population,
\* the offspring's buffer holds what an earlier individual's does.  The model
\* follows a population up to its first reproduction.
Reproduce ==
    /\ species.genome # Undefined
    /\ population # <<>>
    /\ counts = Undefined
    /\ offspring = Undefined
    /\ LET genome == Head(species.genome)
       IN \E k \in 1..Len(genome.marker_order) :
          \E a \in 1..Len(population) : \E b \in 1..Len(population) :
          \E j \in 0..(RandomSteps - 1) :
              /\ Chromosome_is_autosomal(genome.metadata[k])
              /\ LET parents == <<population[a].genome, population[b].genome>>
                     before == population[1].genome
                     position == genome.marker_start[k]
                 IN offspring' = Some([name |-> k, position |-> position,
                                       parents |-> parents, before |-> before,
                                       after |-> Autosome_reproduce(genome.metadata[k], before,
                                                                    parents, position, j)])
    /\ UNCHANGED <<args, sync, async, species, population, counts>>

GenomeNext ==
    NewGenome \/ GenerateRandomized \/ GenerateZero \/ ComputeStatistics \/ Reproduce

SpecGenome == GenomeInit /\ [][GenomeNext]_vars

(***************************************************************************)
(* Properties of the genome layout, the builder and the statistic.         *)
(***************************************************************************)
RECURSIVE SumSizes(_)
SumSizes(metadata) ==
    IF metadata = <<>> THEN 0
    ELSE Chromosome_size(Head(metadata)) + SumSizes(Tail(metadata))

\* the positions [start(name), start(name) + size) of chromosome k
Range(genome, k) ==
    {p \in 0..(genome.size + MaxGenomeSize) :
        /\ genome.marker_start[k] <= p
        /\ p < genome.marker_start[k] + Chromosome_size(genome.metadata[k])}

\* C7: the size of a Genome is the sum of its chromosomes' sizes, the start
\* offsets do not decrease along marker_order, every chromosome ends within
\* the genome and the ranges of two chromosomes never overlap.
C7_GenomeLayout ==
    species.genome # Undefined =>
        LET genome == Head(species.genome)
            names == 1..Len(genome.marker_order)
        IN /\ genome.marker_order = [k \in 1..Len(species.metadata) |-> k]
           /\ genome.size = SumSizes(species.metadata)
           /\ \A k \in names :
                 /\ k + 1 \in names => genome.marker_start[k] <= genome.marker_start[k + 1]
                 /\ genome.marker_start[k] + Chromosome_size(genome.metadata[k]) <= genome.size
           /\ \A j \in names : \A k \in names :
                 j # k => Range(genome, j) \cap Range(genome, k) = {}

C7_Witness ==
    /\ species.genome # Undefined
    /\ Len(species.metadata) = 2
    /\ species.metadata[1].kind = "Chromosome"
    /\ species.metadata[2].kind = "XChromosome"
    /\ Head(species.genome).size = MaxGenomeSize
    /\ Head(species.genome).marker_start[2] = MaxGenomeSize - 2

\* the possible_values of the locus the layout places at position p: the
\* copies of a doubled chromosome repeat its loci
LocusAt(genome, p) ==
    LET k == CHOOSE k \in 1..Len(genome.marker_order) : p \in Range(genome, k)
        base == genome.metadata[k].markers
    IN base[((p - genome.marker_start[k]) % Len(base)) + 1]

Values(possible_values) == {possible_values[i] : i \in 1..Len(possible_values)}

\* C8: a genome made by create_simple_genome with the random chooser holds at
\* every position a member of the possible_values of the locus placed there.
C8_RandomGenomeValid ==
    \A n \in 1..Len(population) :
        population[n].chooser = "random" =>
            \A p \in 0..(Head(species.genome).size - 1) :
                population[n].genome[p + 1] \in Values(LocusAt(Head(species.genome), p))

\* the number of copies of its loci chromosome k stores
Copies(genome, k) ==
    Chromosome_size(genome.metadata[k]) \div Len(genome.metadata[k].markers)

\* every individual carries allele at locus f of chromosome k, in every copy
Uniform(individuals, genome, k, f, allele) ==
    \A n \in 1..Len(individuals) :
        \A c \in 0..(Copies(genome, k) - 1) :
            individuals[n].genome[genome.marker_start[k]
                                  + c * Len(genome.metadata[k].markers) + f] = allele

Biallelic(genome, k, f) == Cardinality(Values(genome.metadata[k].markers[f])) = 2

Loci(genome) ==
    {<<k, f>> : k \in 1..Len(genome.marker_order), f \in 1..MaxGenomeSize}
    \cap {kf \in (1..MaxGenomeSize) \X (1..MaxGenomeSize) :
             /\ kf[1] <= Len(genome.marker_order)
             /\ kf[2] <= Len(genome.metadata[kf[1]].markers)}

\* C9 as stated: when all individuals carry the same allele at a biallelic
\* locus, its frequency table has one key and the count is the population
\* size, on plain and on autosomal chromosomes alike.
C9_OneKeyPopulationSize ==
    counts # Undefined =>
        LET genome == Head(species.genome)
            result == Head(counts)
        IN \A kf \in Loci(genome) : \A allele \in 0..2 :
              (Biallelic(genome, kf[1], kf[2])
                  /\ Uniform(result.individuals, genome, kf[1], kf[2], allele))
              => LET table == result.counts[kf[1]][kf[2]]
                 IN /\ DOMAIN table = {allele}
                    /\ table[allele] = Len(result.individuals)

\* C9 amended: the table has one key; its count is the population size on a
\* chromosome that is not autosomal and twice the population size on an
\* autosomal one, whose two copies are both tallied.
C9_OneKeyPerCopy ==
    counts # Undefined =>
        LET genome == Head(species.genome)
            result == Head(counts)
        IN \A kf \in Loci(genome) : \A allele \in 0..2 :
              (Biallelic(genome, kf[1], kf[2])
                  /\ Uniform(result.individuals, genome, kf[1], kf[2], allele))
              => LET table == result.counts[kf[1]][kf[2]]
                 IN /\ DOMAIN table = {allele}
                    /\ table[allele] =
                          IF Chromosome_is_autosomal(genome.metadata[kf[1]])
                              THEN 2 * Len(result.individuals)
                              ELSE Len(result.individuals)

C9_Witness ==
    /\ counts # Undefined
    /\ Len(Head(counts).individuals) = 2
    /\ \E kf \in Loci(Head(species.genome)) :
          /\ Chromosome_is_autosomal(species.metadata[kf[1]])
          /\ species.metadata[kf[1]].markers[kf[2]] = SNP
          /\ Uniform(Head(counts).individuals, Head(species.genome), kf[1], kf[2], 1)
          /\ Head(counts).counts[kf[1]][kf[2]][1] = 4

\* C10: on an autosomal chromosome with h loci starting at s, the table of
\* locus i counts over all individuals the allele of the first copy at
\* genome[s + i] and the allele of the second copy at genome[s + h + i].
C10_BothCopiesTallied ==
    counts # Undefined =>
        LET genome == Head(species.genome)
            result == Head(counts)
            P == Len(result.individuals)
        IN \A kf \in Loci(genome) :
              Chromosome_is_autosomal(genome.metadata[kf[1]]) =>
                  LET s == genome.marker_start[kf[1]]
                      h == Len(genome.metadata[kf[1]].markers)
                      i == kf[2] - 1
                  IN result.counts[kf[1]][kf[2]] =
                        Tally([n \in 1..(2 * P) |->
                                 IF n <= P THEN result.individuals[n].genome[s + i + 1]
                                 ELSE result.individuals[n - P].genome[s + h + i + 1]])

\* bytes [from, from + h) of a genome buffer
Bytes(buffer, from, h) == [i \in 1..h |-> buffer[from + i]]

\* C11: after the Autosome layer's reproduce on a chromosome of base size h
\* the offspring's bytes [position, position + h) are bytes [position,
\* position + h) of one parent, its bytes [position + h, position + 2h) are
\* bytes [position, position + h) of the other parent, and its bytes outside
\* [position, position + 2h) are unchanged.
C11_AutosomeReproduce ==
    offspring # Undefined =>
        LET o == Head(offspring)
            h == Len(species.metadata[o.name].markers)
        IN /\ Len(o.after) = Len(o.before)
           /\ \E x \in 1..2 :
                 /\ Bytes(o.after, o.position, h) = Bytes(o.parents[x], o.position, h)
                 /\ Bytes(o.after, o.position + h, h) = Bytes(o.parents[3 - x], o.position, h)
           /\ \A p \in 1..Len(o.before) :
                 (p - 1 < o.position \/ p - 1 >= o.position + 2 * h)
                     => o.after[p] = o.before[p]

C11_Witness ==
    /\ offspring # Undefined
    /\ LET o == Head(offspring)
           h == Len(species.metadata[o.name].markers)
       IN /\ o.position > 0
          /\ o.before[1] # 0
          /\ o.after[1] = o.before[1]
          /\ Bytes(o.parents[1], o.position, h) # Bytes(o.parents[2], o.position, h)
          /\ Bytes(o.parents[1], o.position, h) # Bytes(o.parents[1], o.position + h, h)
          /\ Bytes(o.after, o.position, h) = Bytes(o.parents[2], o.position, h)
          /\ Bytes(o.after, o.position + h, h) = Bytes(o.parents[1], o.position, h)

====
